---- MODULE Spec2Model ----
(***************************************************************************)
(* Model of the circuit-representation layer (qmps/represent.py) and of    *)
(* the Loschmidt-echo quench loop (new_tdvp/LoschmidtEchos.py).            *)
(*                                                                         *)
(* Five specifications share the module's variables; each one drives one   *)
(* part of the program and leaves the other parts' variables at their idle *)
(* value:                                                                  *)
(*   SpecTensor   Tensor.__pow__                                           *)
(*   SpecCompose  State._decompose_, HorizontalSwapTest._decompose_        *)
(*   SpecHSwap    HorizontalSwapOptimizer.objective_function               *)
(*   SpecVSwap    VerticalSwapOptimizer.objective_function                 *)
(*   SpecQuench   loschmidt_evolve                                         *)
(***************************************************************************)
EXTENDS Integers, Sequences, FiniteSets, TLC

VARIABLES
    \* Tensor.__pow__
    tensor,             \* the receiver: [class, U, n_qubits, symbol]
    power,              \* the exponent handed to **
    out,                \* [self, ret]: the receiver after the call, the value returned
    \* State / HorizontalSwapTest composition
    gate,               \* the composite gate: [kind, u, v, n, bond_dim]
    ops,                \* what _decompose_ produced: a list of placements or an error
    \* HorizontalSwapOptimizer.objective_function
    hopt,               \* [bond_dim, reps]
    measurements,       \* one bit tuple per repetition run so far
    hcost,              \* returned cost as a fraction [num, den]
    \* VerticalSwapOptimizer.objective_function
    vopt,               \* [num_qubits, aux_qubits]
    state_vector,       \* |amplitude|^2 of each basis state, in units of 1/Unit
    vcost,              \* returned cost as a fraction [num, den]
    \* loschmidt_evolve
    pc, DT, STEPS, i, ground_state, loschmidt_results, init_params,
    calls,              \* the exact_optimize calls of the current run, in order
    memo,               \* the optimizer's answers so far (it is deterministic)
    gs_memo,            \* the ground-state solver's answer
    returned            \* the trajectories returned by the finished runs

tvars == <<tensor, power, out>>
cvars == <<gate, ops>>
hvars == <<hopt, measurements, hcost>>
vvars == <<vopt, state_vector, vcost>>
qvars == <<pc, DT, STEPS, i, ground_state, loschmidt_results, init_params,
           calls, memo, gs_memo, returned>>
vars == <<tvars, cvars, hvars, vvars, qvars>>

\* the value of a variable that holds nothing (yet)
None == [kind |-> "None"]

IdleTensor == tensor = None /\ power = None /\ out = None
IdleCompose == gate = None /\ ops = None
IdleHSwap == hopt = None /\ measurements = None /\ hcost = None
IdleVSwap == vopt = None /\ state_vector = None /\ vcost = None
IdleQuench ==
    /\ pc = None /\ DT = None /\ STEPS = None /\ i = None
    /\ ground_state = None /\ loschmidt_results = None /\ init_params = None
    /\ calls = None /\ memo = None /\ gs_memo = None /\ returned = None

----------------------------------------------------------------------------
(* Integer helpers *)

RECURSIVE Pow2(_)
Pow2(n) == IF n <= 0 THEN 1 ELSE 2 * Pow2(n - 1)

\* int(log2(d)) for d >= 1
RECURSIVE Log2(_)
Log2(d) == IF d <= 1 THEN 0 ELSE 1 + Log2(d \div 2)

----------------------------------------------------------------------------
(* Complex numbers <<re, im>> with integer parts, and square matrices as    *)
(* sequences of rows.                                                       *)

Zero == <<0, 0>>
One == <<1, 0>>
CAdd(a, b) == <<a[1] + b[1], a[2] + b[2]>>
CMul(a, b) == <<a[1] * b[1] - a[2] * b[2], a[1] * b[2] + a[2] * b[1]>>
Conj(a) == <<a[1], 0 - a[2]>>

RECURSIVE DotRowCol(_, _, _, _, _)
DotRowCol(A, B, r, c, k) ==
    IF k = 0 THEN Zero
    ELSE CAdd(DotRowCol(A, B, r, c, k - 1), CMul(A[r][k], B[k][c]))

\* numpy.dot of two square matrices of equal shape
Dot(A, B) ==
    [r \in 1..Len(A) |-> [c \in 1..Len(A) |-> DotRowCol(A, B, r, c, Len(A))]]

Eye(d) == [r \in 1..d |-> [c \in 1..d |-> IF r = c THEN One ELSE Zero]]

\* The unitaries the tensors are built from: the monomial matrices (one
\* nonzero entry, a fourth root of unity, per row and column).
Phases == {<<1, 0>>, <<0, 1>>, <<-1, 0>>, <<0, -1>>}
Monomial(perm, ph) ==
    [r \in 1..Len(perm) |-> [c \in 1..Len(perm) |->
        IF perm[r] = c THEN ph[r] ELSE Zero]]
Perms1 == {<<1, 2>>, <<2, 1>>}
Perms2 == {<<1, 2, 4, 3>>, <<1, 3, 2, 4>>, <<2, 3, 4, 1>>}
Unitaries ==
    {Monomial(p, ph) : p \in Perms1, ph \in [1..2 -> Phases]}
    \cup {Monomial(p, ph) : p \in Perms2, ph \in [1..4 -> {<<1, 0>>, <<0, 1>>}]}

----------------------------------------------------------------------------
(* Tensor, FullStateTensor, FullEnvironment *)

MaxPower == 3

Classes == {"Tensor", "FullStateTensor", "FullEnvironment"}
NoArg == "NoArg"
ValueError == [kind |-> "ValueError"]
TypeError == [kind |-> "TypeError"]
IndexError == [kind |-> "IndexError"]

DefaultSymbol(cls) == IF cls = "FullStateTensor" THEN <<"U">> ELSE <<"V">>

\* cls(unitary[, symbol]): Tensor requires the symbol, the subclasses default it
Construct(cls, unitary, symbol) ==
    IF cls = "Tensor" /\ symbol = NoArg THEN TypeError
    ELSE [kind |-> "tensor", class |-> cls, U |-> unitary,
          n_qubits |-> Log2(Len(unitary)),
          symbol |-> IF symbol = NoArg THEN DefaultSymbol(cls) ELSE symbol]

\* self.U.conj().T
ConjT_noconj(U) == [r \in 1..Len(U) |-> [c \in 1..Len(U) |-> U[c][r]]]
ConjT(U) == [r \in 1..Len(U) |-> [c \in 1..Len(U) |-> Conj(U[c][r])]]

\* numpy.linalg.multi_dot([U] * k), for k >= 2
RECURSIVE MultiDot(_, _)
MultiDot(U, k) == IF k <= 1 THEN U ELSE Dot(MultiDot(U, k - 1), U)

\* Tensor.__pow__: [self |-> the receiver afterwards, ret |-> the result]
TensorPow(self, k) ==
    [self |-> self,
     ret |-> IF k = -1
             THEN Construct(self.class, ConjT(self.U), Append(self.symbol, "dagger"))
             ELSE IF k < 2
                  THEN ValueError      \* multi_dot wants at least two arrays
                  ELSE Construct(self.class, MultiDot(self.U, k), NoArg)]

InitTensor ==
    /\ \E cls \in Classes, U \in Unitaries :
          tensor = Construct(cls, U, IF cls = "Tensor" THEN <<"T">> ELSE NoArg)
    /\ power = None /\ out = None
    /\ IdleCompose /\ IdleHSwap /\ IdleVSwap /\ IdleQuench

Pow ==
    /\ tensor # None /\ out = None
    /\ \E k \in (-1)..MaxPower :
          /\ power' = k
          /\ out' = TensorPow(tensor, k)
    /\ UNCHANGED <<tensor, cvars, hvars, vvars, qvars>>

NextTensor == Pow
SpecTensor == InitTensor /\ [][NextTensor]_vars

\* the k-fold product U.U...U, k >= 1
RECURSIVE MatPower(_, _)
MatPower(U, k) == IF k = 1 THEN U ELSE Dot(U, MatPower(U, k - 1))

\* C1: for k >= 1, T ** k returns a tensor with the same qubit count whose
\* matrix is the k-fold product of U (for k = 1, U itself).
C1_PowerIsKFoldProduct ==
    (out # None /\ power >= 1) =>
        /\ out.ret.kind = "tensor"
        /\ out.ret.n_qubits = tensor.n_qubits
        /\ out.ret.U = MatPower(tensor.U, power)

\* C2: T ** -1 returns a tensor of the same class and qubit count whose
\* matrix is the conjugate transpose of U, the product of U with it is the
\* identity, and T is left as it was.
C2_InverseIsConjugateTranspose ==
    (out # None /\ power = -1) =>
        /\ out.ret.kind = "tensor"
        /\ out.ret.class = tensor.class
        /\ out.ret.n_qubits = tensor.n_qubits
        /\ \A r, c \in 1..Len(tensor.U) : out.ret.U[r][c] = Conj(tensor.U[c][r])
        /\ Dot(tensor.U, out.ret.U) = Eye(Len(tensor.U))
        /\ out.self = tensor

C2_Witness ==
    /\ out # None /\ power = -1
    /\ out.ret.kind = "tensor"
    /\ out.ret.U # tensor.U
    /\ tensor.n_qubits = 2

----------------------------------------------------------------------------
(* State and HorizontalSwapTest: composition of gate placements *)

MaxGateQubits == 3
MaxPhys == 4
MaxLogBond == 2

Min(a, b) == IF a < b THEN a ELSE b

\* cirq.LineQubit(x)
LineQubit(x) == [kind |-> "qubit", x |-> x]

\* cirq_qubits(n): the line register 0 .. n-1
cirq_qubits(n) == [k \in 1..n |-> LineQubit(k - 1)]

\* Python's qubits[a:b] for 0 <= a <= b: the slice is cut at the end of the list
Slice(qubits, a, b) ==
    [k \in 1..(Min(b, Len(qubits)) - Min(a, Len(qubits))) |->
        qubits[Min(a, Len(qubits)) + k]]

\* gate(*qubits): a gate accepts exactly num_qubits() qubits
On(g, qubits) ==
    IF Len(qubits) # g.num_qubits THEN ValueError
    ELSE [kind |-> "op", gate |-> g.name, qubits |-> qubits]

IsError(r) == r.kind \in {"ValueError", "TypeError", "IndexError"}

HasError(list) == \E k \in 1..Len(list) : IsError(list[k])

\* the exception that ends the evaluation of a list of expressions
FirstError(list) ==
    list[CHOOSE k \in 1..Len(list) :
            /\ IsError(list[k])
            /\ \A j \in 1..(k - 1) : ~IsError(list[j])]

\* a list literal or comprehension: the first exception raised, or the list
Ops(list) ==
    IF HasError(list) THEN FirstError(list) ELSE [kind |-> "ops", list |-> list]

\* State.num_qubits
StateNumQubits(self) == self.n + self.v.num_qubits

\* State._decompose_
StateDecompose_vlast(self, qubits) ==
    Ops([k \in 1..self.n |-> On(self.u, Slice(qubits, k - 1, k - 1 + self.u.num_qubits))]
        \o <<On(self.v, Slice(qubits, self.n, self.n + self.v.num_qubits))>>)
StateDecompose(self, qubits) ==
    Ops(<<On(self.v, Slice(qubits, self.n, self.n + self.v.num_qubits))>>
        \o [k \in 1..self.n |-> On(self.u, Slice(qubits, k - 1, k - 1 + self.u.num_qubits))])

\* State.__init__
NewState(u, v, n) ==
    [kind |-> "State", u |-> u, v |-> v, n |-> n,
     bond_dim |-> Pow2(u.num_qubits - 1)]

\* HorizontalSwapTest.__init__
NewHorizontalSwapTest(u, v, bond_dim) ==
    [kind |-> "HorizontalSwapTest", u |-> u, v |-> v,
     state |-> NewState(u, v, 1), bond_dim |-> bond_dim]

\* HorizontalSwapTest.num_qubits
SwapNumQubits(self) == StateNumQubits(self.state) + self.v.num_qubits

\* qubits[k] for a 0-based index k
Item(qubits, k) == IF k < Len(qubits) THEN qubits[k + 1] ELSE IndexError

\* cirq.CNOT(a, b), cirq.H(a): the operands are evaluated first
Apply(name, qs) ==
    IF HasError(qs) THEN FirstError(qs)
    ELSE [kind |-> "op", gate |-> name, qubits |-> qs]

\* HorizontalSwapTest._decompose_
SwapDecompose(self, qubits) ==
    LET state_qbs == StateNumQubits(self.state)
        env_qbs == self.v.num_qubits
        target_qbs == Log2(self.bond_dim)
        cnots == [k \in 1..target_qbs |->
                    Apply("CNOT", <<Item(qubits, k - 1), Item(qubits, k - 1 + state_qbs)>>)]
        hadamards == [k \in 1..target_qbs |-> Apply("H", <<Item(qubits, k - 1)>>)]
        blocks == <<StateDecompose(self.state, Slice(qubits, 0, state_qbs)),
                    On(self.v, Slice(qubits, state_qbs, state_qbs + env_qbs))>>
    IN  IF HasError(cnots \o hadamards \o blocks)
        THEN FirstError(cnots \o hadamards \o blocks)
        ELSE [kind |-> "ops", list |-> blocks \o cnots \o hadamards]

Gates(name) == {[name |-> name, num_qubits |-> q] : q \in 1..MaxGateQubits}

InitCompose ==
    /\ \E u \in Gates("u"), v \in Gates("v") :
          \/ \E n \in 1..MaxPhys : gate = NewState(u, v, n)
          \/ \E lb \in 0..MaxLogBond : gate = NewHorizontalSwapTest(u, v, Pow2(lb))
    /\ ops = None
    /\ IdleTensor /\ IdleHSwap /\ IdleVSwap /\ IdleQuench

\* state.on(*qubits) on the gate's own register, then its decomposition
DecomposeState ==
    /\ gate.kind = "State" /\ ops = None
    /\ ops' = StateDecompose(gate, cirq_qubits(StateNumQubits(gate)))
    /\ UNCHANGED <<gate, tvars, hvars, vvars, qvars>>

DecomposeSwapTest ==
    /\ gate.kind = "HorizontalSwapTest" /\ ops = None
    /\ ops' = SwapDecompose(gate, cirq_qubits(SwapNumQubits(gate)))
    /\ UNCHANGED <<gate, tvars, hvars, vvars, qvars>>

NextCompose == DecomposeState \/ DecomposeSwapTest
SpecCompose == InitCompose /\ [][NextCompose]_vars

\* the qubits a, a+1, .. a+len-1 of the line register
QubitRange(a, len) == [k \in 1..len |-> LineQubit(a + k - 1)]

IsPlacement(op, g, first) ==
    op = [kind |-> "op", gate |-> g.name, qubits |-> QubitRange(first, g.num_qubits)]

\* C3 as stated: the sequence holds n placements of u, the i-th on qubits
\* i .. i+u.num_qubits()-1, and after all of them exactly one placement of v
\* on the boundary qubits n .. n+v.num_qubits()-1.
C3_UsThenV ==
    (gate.kind = "State" /\ ops # None) =>
        /\ ops.kind = "ops"
        /\ \E place \in [0..(gate.n - 1) -> 1..Len(ops.list)] :
              /\ \A a, b \in 0..(gate.n - 1) : a # b => place[a] # place[b]
              /\ \A a \in 0..(gate.n - 1) : IsPlacement(ops.list[place[a]], gate.u, a)
              /\ \E pv \in 1..Len(ops.list) :
                    /\ IsPlacement(ops.list[pv], gate.v, gate.n)
                    /\ \A a \in 0..(gate.n - 1) : place[a] < pv
                    /\ \A k \in 1..Len(ops.list) :
                          ops.list[k].gate = gate.v.name => k = pv
        /\ Cardinality({k \in 1..Len(ops.list) : ops.list[k].gate = gate.u.name}) = gate.n

\* C3 amended: when every placement of u fits the register
\* (u.num_qubits() <= v.num_qubits() + 1) the sequence is the placement of v
\* on qubits n .. n+v.num_qubits()-1 FIRST, followed by the n placements of
\* u in ascending order, the i-th on qubits i .. i+u.num_qubits()-1;
\* otherwise the decomposition raises the arity error of the cut placement.
C3_VThenUs ==
    (gate.kind = "State" /\ ops # None) =>
        IF gate.u.num_qubits <= gate.v.num_qubits + 1
        THEN /\ ops.kind = "ops"
             /\ Len(ops.list) = gate.n + 1
             /\ IsPlacement(ops.list[1], gate.v, gate.n)
             /\ \A a \in 0..(gate.n - 1) : IsPlacement(ops.list[a + 2], gate.u, a)
        ELSE ops = ValueError

C3_Witness ==
    /\ gate.kind = "State" /\ ops # None
    /\ ops.kind = "ops"
    /\ gate.n >= 2
    /\ gate.u.num_qubits >= 2

\* the operand shapes disagree with each other or with the bond dimension
ShapeMismatch(g) ==
    \/ g.u.num_qubits # Log2(g.bond_dim) + 1
    \/ g.v.num_qubits # 2 * Log2(g.bond_dim)
    \* the last placement of u ends past the register
    \/ g.u.num_qubits > g.v.num_qubits + 1

\* C9: composing operands whose shapes disagree always ends in a shape or
\* arity error: no circuit comes out, so none with a gate on a cut slice and
\* none whose number of CNOT/Hadamard pairs differs from v's auxiliary qubits.
C9_MismatchRaises ==
    (ops # None /\ ShapeMismatch(gate)) => IsError(ops)

----------------------------------------------------------------------------
(* HorizontalSwapOptimizer.objective_function *)

MaxReps == 3
HBondDims == {2, 4}

\* ShallowEnvironment.__init__: n_qubits
EnvironmentQubits(bond_dim) == 2 * Log2(bond_dim)

\* cirq's default fold of a measured bit tuple: the big-endian integer
RECURSIVE BigEndian(_)
BigEndian(bits) ==
    IF bits = <<>> THEN 0
    ELSE 2 * BigEndian(SubSeq(bits, 1, Len(bits) - 1)) + bits[Len(bits)]

\* results.histogram(key=key): a Counter, 0 for what was never seen
Histogram(ms, measure_qubits) ==
    [key \in 0..(Pow2(measure_qubits) - 1) |->
        Cardinality({r \in 1..Len(ms) : BigEndian(ms[r]) = key})]

\* aux_qubs of objective_function
HAuxQubits(self) == EnvironmentQubits(self.bond_dim) \div 2

\* all_ones of objective_function
AllOnes_short(measure_qubits) == Pow2(measure_qubits - 1) - 1
AllOnes(measure_qubits) == Pow2(measure_qubits) - 1

\* the value objective_function returns: prob_all_ones
HObjective(self, ms) ==
    LET measure_qubits == 2 * HAuxQubits(self)
        counter == Histogram(ms, measure_qubits)
    IN  [num |-> counter[AllOnes(measure_qubits)], den |-> self.reps]

InitHSwap ==
    /\ \E bd \in HBondDims, reps \in 1..MaxReps : hopt = [bond_dim |-> bd, reps |-> reps]
    /\ measurements = <<>>
    /\ hcost = None
    /\ IdleTensor /\ IdleCompose /\ IdleVSwap /\ IdleQuench

\* simulator.run: one repetition measures the 2 * aux_qubs qubits
RunRepetition ==
    /\ hopt # None /\ hcost = None
    /\ Len(measurements) < hopt.reps
    /\ \E bits \in [1..(2 * HAuxQubits(hopt)) -> {0, 1}] :
          measurements' = Append(measurements, bits)
    /\ UNCHANGED <<hopt, hcost, tvars, cvars, vvars, qvars>>

HReturn ==
    /\ hopt # None /\ hcost = None
    /\ Len(measurements) = hopt.reps
    /\ hcost' = HObjective(hopt, measurements)
    /\ UNCHANGED <<hopt, measurements, tvars, cvars, vvars, qvars>>

NextHSwap == RunRepetition \/ HReturn
SpecHSwap == InitHSwap /\ [][NextHSwap]_vars

\* the repetitions in which every measured qubit read 1
AllOnesRuns == {r \in 1..Len(measurements) : \A b \in DOMAIN measurements[r] : measurements[r][b] = 1}

\* C4 as stated: the cost is 1 - count(all-ones)/reps.
C4_OneMinusP ==
    hcost # None => hcost.num * hopt.reps = (hopt.reps - Cardinality(AllOnesRuns)) * hcost.den

\* C4 amended: the cost is P(all-ones) = count(all-ones)/reps itself; it
\* lies in [0, 1] and is 0 exactly when no repetition produced the all-ones
\* outcome.
C4_CostIsP ==
    hcost # None =>
        /\ hcost.den = hopt.reps
        /\ hcost.num = Cardinality(AllOnesRuns)
        /\ 0 <= hcost.num /\ hcost.num <= hcost.den
        /\ (hcost.num = 0 <=> AllOnesRuns = {})

C4_Witness ==
    /\ hcost # None
    /\ hopt.bond_dim = 4
    /\ hcost.num > 0 /\ hcost.num < hcost.den

----------------------------------------------------------------------------
(* VerticalSwapOptimizer.objective_function *)

MaxQubits == 3
Unit == 2

\* VerticalSwapOptimizer.get_target_qubits
get_target_qubits(aux_qubits, num_qubits) == Pow2(num_qubits - aux_qubits) - 1

RECURSIVE SumTo(_, _)
\* sum(v[:t])
SumTo(v, t) == IF t <= 0 THEN 0 ELSE SumTo(v, t - 1) + v[t - 1]

\* the value objective_function returns: 1 - prob_zeros
VObjective(self, sv) ==
    LET target_qubits == get_target_qubits(self.aux_qubits, self.num_qubits)
        prob_zeros == SumTo(sv, target_qubits)
    IN  [num |-> Unit - prob_zeros, den |-> Unit]

\* the final state vectors: Unit quanta of probability spread over the basis
StateVectors(n) ==
    {[k \in 0..(Pow2(n) - 1) |-> Cardinality({q \in 1..Unit : at[q] = k})] :
        at \in [1..Unit -> 0..(Pow2(n) - 1)]}

InitVSwap ==
    /\ \E n \in 2..MaxQubits : \E a \in 1..(n - 1) :
          /\ vopt = [num_qubits |-> n, aux_qubits |-> a]
          /\ state_vector \in StateVectors(n)
    /\ vcost = None
    /\ IdleTensor /\ IdleCompose /\ IdleHSwap /\ IdleQuench

VReturn ==
    /\ vopt # None /\ vcost = None
    /\ vcost' = VObjective(vopt, state_vector)
    /\ UNCHANGED <<vopt, state_vector, tvars, cvars, hvars, qvars>>

NextVSwap == VReturn
SpecVSwap == InitVSwap /\ [][NextVSwap]_vars

\* bit j (0 = most significant) of basis index k on n qubits
Bit(k, j, n) == (k \div Pow2(n - 1 - j)) % 2

\* the basis states whose leading aux_qubits bits are 0
LeadingZeros(self) ==
    {k \in 0..(Pow2(self.num_qubits) - 1) :
        \A j \in 0..(self.aux_qubits - 1) : Bit(k, j, self.num_qubits) = 0}

RECURSIVE SumOver(_, _)
SumOver(v, S) ==
    IF S = {} THEN 0
    ELSE LET k == CHOOSE x \in S : TRUE IN v[k] + SumOver(v, S \ {k})

\* C10: the cost is 1 minus the probability that the first aux_qubits
\* qubits are all 0: the summed entries are exactly the 2^(N-a) basis states
\* 0 .. 2^(N-a)-1, and the cost is 0 iff all probability lies on them.
C10_CostIsOneMinusPZeros ==
    vcost # None =>
        /\ vcost.num = Unit - SumOver(state_vector, LeadingZeros(vopt))
        /\ (vcost.num = 0 <=> SumOver(state_vector, LeadingZeros(vopt)) = Unit)

----------------------------------------------------------------------------
(* loschmidt_evolve, run for STEPS = N and then again for STEPS = N + 1 *)

MaxSteps == 2
NumParams == 2
DTs == {1, 2}

\* parameter vectors, and what an optimizer returns: the optimized vector
\* and whether the minimizer converged
Params == {[kind |-> "params", id |-> k] : k \in 1..NumParams}
Results == {[kind |-> "result", x |-> p, success |-> c] : p \in Params, c \in BOOLEAN}

\* W = expm(1j * H * DT) for the quenched H
EvolutionOperator_perStep(dt) == [kind |-> "W", t |-> dt * (STEPS + 1)]
EvolutionOperator(dt) == [kind |-> "W", t |-> dt]

\* Op.evolve.paramU(init_params): the two tensors of a parameter vector
paramU(p) == <<[kind |-> "U1", of |-> p], [kind |-> "U2", of |-> p]>>

\* the exact_optimize call of the recording branch
RecordCall_cold ==
    [W |-> EvolutionOperator(DT),
     U1 |-> paramU(init_params)[1], U2 |-> paramU(init_params)[2],
     initial_params |-> ground_state.x, record |-> TRUE]
RecordCall ==
    [W |-> EvolutionOperator(DT),
     U1 |-> paramU(init_params)[1], U2 |-> paramU(init_params)[2],
     initial_params |-> init_params, record |-> TRUE]

\* the exact_optimize call of the else branch
ElseCall ==
    [W |-> EvolutionOperator(DT),
     U1 |-> paramU(init_params)[1], U2 |-> paramU(init_params)[2],
     initial_params |-> init_params, record |-> FALSE]

\* what exact_optimize's answer depends on: everything but the record flag
Key(call) ==
    [W |-> call.W, U1 |-> call.U1, U2 |-> call.U2, initial_params |-> call.initial_params]

\* the answers exact_optimize can give to a call: the optimizer is
\* deterministic, so a call it has answered before gets the same answer
ExactOptimize(call) ==
    IF Key(call) \in DOMAIN memo THEN {memo[Key(call)]} ELSE Results

Remember(call, res) ==
    [k \in DOMAIN memo \cup {Key(call)} |-> IF k = Key(call) THEN res ELSE memo[k]]

\* init_params = res_e.x
CarriedParams_cold(res) == ground_state.x
CarriedParams(res) == res.x

\* loschmidt_results.append(res_e)
AppendResult_front(results, res) == <<res>> \o results
AppendResult(results, res) == Append(results, res)

InitQuench ==
    /\ pc = "call"
    /\ DT \in DTs
    /\ STEPS \in 0..MaxSteps
    /\ i = 0
    /\ ground_state = None
    /\ loschmidt_results = <<>>
    /\ init_params = None
    /\ calls = <<>>
    /\ memo = <<>>
    /\ gs_memo = None
    /\ returned = <<>>
    /\ IdleTensor /\ IdleCompose /\ IdleHSwap /\ IdleVSwap

\* lines 33-61: the ground state is found and starts the trajectory
FindGroundState ==
    /\ pc = "call"
    /\ \E gs \in (IF gs_memo = None THEN Results ELSE {gs_memo}) :
          /\ ground_state' = gs
          /\ gs_memo' = gs
          /\ loschmidt_results' = AppendResult(<<>>, gs)
          /\ init_params' = gs.x
    /\ i' = 0
    /\ calls' = <<>>
    /\ pc' = "loop"
    /\ UNCHANGED <<DT, STEPS, memo, returned, tvars, cvars, hvars, vvars>>

\* lines 62-89: one iteration of the quench loop
QuenchStep ==
    /\ pc = "loop" /\ i < STEPS
    /\ \E record_optimize \in BOOLEAN :
          LET call == IF record_optimize THEN RecordCall ELSE ElseCall
          IN  \E res_e \in ExactOptimize(call) :
                 /\ memo' = Remember(call, res_e)
                 /\ calls' = Append(calls, [call |-> call, ret |-> res_e])
                 /\ loschmidt_results' = AppendResult(loschmidt_results, res_e)
                 /\ init_params' = CarriedParams(res_e)
    /\ i' = i + 1
    /\ UNCHANGED <<pc, DT, STEPS, ground_state, gs_memo, returned,
                   tvars, cvars, hvars, vvars>>

\* lines 91-94: the trajectory is dumped and returned
ReturnTrajectory ==
    /\ pc = "loop" /\ i >= STEPS
    /\ returned' = Append(returned, [DT |-> DT, STEPS |-> STEPS,
                                     trajectory |-> loschmidt_results])
    /\ pc' = "done"
    /\ UNCHANGED <<DT, STEPS, i, ground_state, loschmidt_results, init_params,
                   calls, memo, gs_memo, tvars, cvars, hvars, vvars>>

\* the second run: same seed and DT, one more step
RunAgain ==
    /\ pc = "done" /\ Len(returned) = 1
    /\ STEPS' = STEPS + 1
    /\ pc' = "call"
    /\ UNCHANGED <<DT, i, ground_state, loschmidt_results, init_params,
                   calls, memo, gs_memo, returned, tvars, cvars, hvars, vvars>>

NextQuench == FindGroundState \/ QuenchStep \/ ReturnTrajectory \/ RunAgain
SpecQuench == InitQuench /\ [][NextQuench]_vars

IsPrefix(s, t) == Len(s) <= Len(t) /\ \A k \in 1..Len(s) : s[k] = t[k]

C5_Step ==
    /\ pc' \in {"loop", "done"} =>
          /\ loschmidt_results'[1] = ground_state'
          /\ Len(loschmidt_results') = i' + 1
          /\ \A j \in 1..i' : loschmidt_results'[j + 1] = calls'[j].ret
    /\ pc \in {"loop", "done"} => IsPrefix(loschmidt_results, loschmidt_results')
    /\ pc' = "done" => Len(returned'[Len(returned')].trajectory) = STEPS' + 1

\* C5: once the ground state is found the trajectory has the ground-state
\* record at index 0 and, after j iterations, j+1 records, the one at index
\* i being the result of step i; records are only appended, and the
\* returned trajectory has STEPS+1 records.
C5_TrajectoryShape == [][C5_Step]_vars

C5_Witness ==
    /\ pc = "done" /\ STEPS >= 2
    /\ loschmidt_results[2] # loschmidt_results[3]
    /\ loschmidt_results[1] # loschmidt_results[2]

\* C6: the i-th optimizer call is warm-started from the record at index
\* i-1, with U1, U2 = paramU of that vector, whatever the earlier calls
\* returned; no step is skipped, repeated or abandoned.
C6_WarmStart ==
    pc \in {"loop", "done"} =>
        /\ Len(calls) = i
        /\ i <= STEPS
        /\ pc = "done" => i = STEPS
        /\ \A j \in 1..Len(calls) :
              /\ calls[j].call.initial_params = loschmidt_results[j].x
              /\ calls[j].call.U1 = paramU(loschmidt_results[j].x)[1]
              /\ calls[j].call.U2 = paramU(loschmidt_results[j].x)[2]

C6_Witness ==
    /\ pc = "done" /\ STEPS >= 2
    /\ ~loschmidt_results[2].success
    /\ loschmidt_results[2].x # ground_state.x
    /\ calls[2].call.initial_params = loschmidt_results[2].x

\* C7: the run with STEPS = N+1 reproduces the parameter vectors of the run
\* with STEPS = N at indices 0..N.
C7_PrefixOfLongerRun ==
    Len(returned) = 2 =>
        /\ returned[2].STEPS = returned[1].STEPS + 1
        /\ \A k \in 1..(returned[1].STEPS + 1) :
              /\ k <= Len(returned[1].trajectory)
              /\ k <= Len(returned[2].trajectory)
              /\ returned[1].trajectory[k].x = returned[2].trajectory[k].x

C7_Witness ==
    /\ Len(returned) = 2
    /\ returned[1].STEPS >= 2
    /\ returned[1].trajectory[2].x # returned[1].trajectory[1].x
    /\ returned[1].trajectory[3].x # returned[1].trajectory[2].x

\* C8: the recording branch and the else branch make the same call but for
\* the record flag, so the record appended and the parameters carried on do
\* not depend on the draw.
C8_RecordingIsDiagnostic ==
    /\ (pc = "loop" /\ i < STEPS) =>
          /\ Key(RecordCall) = Key(ElseCall)
          /\ RecordCall.record /\ ~ElseCall.record
          /\ ExactOptimize(RecordCall) = ExactOptimize(ElseCall)
    /\ pc \in {"loop", "done"} =>
          \A j, k \in 1..Len(calls) :
              Key(calls[j].call) = Key(calls[k].call) =>
                  /\ loschmidt_results[j + 1] = loschmidt_results[k + 1]
                  /\ (j < Len(calls) /\ k < Len(calls)) =>
                        calls[j + 1].call.initial_params = calls[k + 1].call.initial_params

C8_Witness ==
    /\ pc = "done"
    /\ \E j, k \in 1..Len(calls) :
          /\ Key(calls[j].call) = Key(calls[k].call)
          /\ calls[j].call.record /\ ~calls[k].call.record

====
